---- MODULE Spec2Model ----
(***************************************************************************)
(* SwitchPrimaryMonitor (src/src/main.cpp): one run of wWinMain, that is   *)
(* of SwitchPrimaryToNext, against the OS display service.                 *)
(*                                                                         *)
(* The display service is the environment.  Each of its answers            *)
(* (EnumDisplayDevicesW, EnumDisplaySettingsExW, ChangeDisplaySettingsExW) *)
(* is drawn from a small set at the call that receives it; the model has   *)
(* one action per service call, plus the pure steps between them.          *)
(***************************************************************************)
EXTENDS Integers, Sequences, FiniteSets

(***************************************************************************)
(* Bounds of the model.                                                    *)
(***************************************************************************)
\* The display service reports at most MaxDevices display devices.
MaxDevices == 3

\* The program is run again at most MaxRuns times after its first run.
MaxRuns == 3

\* LONG (32 bits in the build) is modelled as a two's-complement integer of
\* LongBits bits; every sum and negation of LONGs is reduced to that width.
LongBits == 13

(***************************************************************************)
(* LONG arithmetic (dmPosition.x, dmPosition.y, offsetX, offsetY).         *)
(***************************************************************************)
LongMax == 2^(LongBits - 1) - 1
LongMin == -(2^(LongBits - 1))
LONG == LongMin..LongMax

\* The value a LONG holds after the build stores the mathematical result v:
\* signed overflow keeps the low LongBits bits (the behaviour of the add and
\* neg instructions the build emits).
WrapLong(v) == ((v - LongMin) % 2^LongBits) + LongMin

\* a + b on LONGs, main.cpp:95, 96, 113, 114.
AddLong(a, b) == WrapLong(a + b)

\* -a on a LONG, main.cpp:88, 89.
NegLong(a) == WrapLong(0 - a)

(***************************************************************************)
(* The display service's vocabulary.                                       *)
(***************************************************************************)
\* DISPLAY_DEVICEW.StateFlags bits the program tests.
StateFlagBits == {"ATTACHED_TO_DESKTOP", "MIRRORING_DRIVER", "PRIMARY_DEVICE"}

\* ChangeDisplaySettingsExW results (windows.h): success, and two of the codes
\* that are not success, one negative and one positive.
DISP_CHANGE_SUCCESSFUL == 0
DISP_CHANGE_FAILED == -1
DISP_CHANGE_RESTART == 1
ChangeResults == {DISP_CHANGE_SUCCESSFUL, DISP_CHANGE_FAILED, DISP_CHANGE_RESTART}

\* Positions <<x, y>> the service reports for a display
\* (EnumDisplaySettingsExW): the origin, a display width to either side, and
\* positions at the lower end of LONG.
Positions ==
    {<<0, 0>>, <<1920, 0>>, <<-1920, 0>>, <<LongMin, LongMin>>, <<1920, LongMin>>}

\* dwflags of the two per-device ChangeDisplaySettingsExW calls.
\* Variant of TargetFlags: CDS_NORESET left out.
TargetFlagsImmediate == {"CDS_SET_PRIMARY", "CDS_UPDATEREGISTRY"}
TargetFlags == {"CDS_SET_PRIMARY", "CDS_UPDATEREGISTRY", "CDS_NORESET"}
\* Variant of OtherFlags: the flags of the target write reused.
OtherFlagsWithPrimary == {"CDS_SET_PRIMARY", "CDS_UPDATEREGISTRY", "CDS_NORESET"}
OtherFlags == {"CDS_UPDATEREGISTRY", "CDS_NORESET"}

(***************************************************************************)
(* Exit statuses of SwitchPrimaryToNext (returned unchanged by wWinMain).  *)
(***************************************************************************)
Running == -1
ExitSuccess == 0
ExitNoDisplays == 1
ExitNoPrimary == 2
ExitTargetWriteFailed == 3
ExitOtherWriteFailed == 4
\* Variant of ExitApplyFailed: the apply failure returned as status 4.
ExitApplyFailedAsOtherWrite == ExitOtherWriteFailed
ExitApplyFailed == 5

(***************************************************************************)
(* The display service's state, as section 6 of the specification and the  *)
(* glossary describe it: a write with the defer-apply flag is staged, and   *)
(* the call with no device applies what is staged.                          *)
(***************************************************************************)
\* No device has settings.
NoSettings == [d \in {} |-> [x |-> 0, y |-> 0]]

\* The settings table `table` with those of device dev set to v.
WithSettings(table, dev, v) ==
    [d \in (DOMAIN table) \cup {dev} |-> IF d = dev THEN v ELSE table[d]]

\* The settings in force `ap` after the settings `st` (st[dev] = [x, y,
\* setPrimary]) are applied: the positions written replace the old ones and
\* a set-primary write moves the primary designation to its device.
Commit(ap, st) ==
    [d \in DOMAIN ap |->
        [x |-> IF d \in DOMAIN st THEN st[d].x ELSE ap[d].x,
         y |-> IF d \in DOMAIN st THEN st[d].y ELSE ap[d].y,
         isPrimary |->
            IF \E e \in DOMAIN st : st[e].setPrimary
            THEN d \in DOMAIN st /\ st[d].setPrimary
            ELSE ap[d].isPrimary]]

\* The settings a write_settings call carries.
SettingsOf(call) ==
    [x |-> call.x, y |-> call.y, setPrimary |-> "CDS_SET_PRIMARY" \in call.flags]

\* The staged settings after the service answered `call`: an accepted call
\* with CDS_NORESET is staged.
StagedAfter(st, call) ==
    IF call.res = DISP_CHANGE_SUCCESSFUL /\ "CDS_NORESET" \in call.flags
    THEN WithSettings(st, call.DeviceName, SettingsOf(call))
    ELSE st

\* The settings in force after the service answered `call`: an accepted call
\* without CDS_NORESET takes effect at once.
AppliedAfter(ap, call) ==
    IF call.res = DISP_CHANGE_SUCCESSFUL /\ "CDS_NORESET" \notin call.flags
    THEN Commit(ap, WithSettings(NoSettings, call.DeviceName, SettingsOf(call)))
    ELSE ap

\* The settings in force and the staged settings after the service answered
\* the call with no device with `res`: on success all that is staged is
\* applied.
AppliedAfterApply(ap, st, res) ==
    IF res = DISP_CHANGE_SUCCESSFUL THEN Commit(ap, st) ELSE ap

StagedAfterApply(st, res) ==
    IF res = DISP_CHANGE_SUCCESSFUL THEN NoSettings ELSE st

(***************************************************************************)
(* State.                                                                  *)
(***************************************************************************)
VARIABLES
    pc,             \* position of the run in SwitchPrimaryToNext
    devs,           \* the devices EnumDisplayDevicesW has returned so far:
                    \* devs[i+1] = [StateFlags, read] for device index i
    i,              \* the loop index of EnumerateDisplays
    displays,       \* std::vector<Display> displays (the snapshot)
    currentPrimary, \* int currentPrimary
    targetIndex,    \* int targetIndex (-1 before it is computed)
    offsetX,        \* LONG offsetX
    offsetY,        \* LONG offsetY
    k,              \* the loop index of the reposition loop
    writes,         \* the per-device ChangeDisplaySettingsExW calls issued
    applies,        \* the results of the final ChangeDisplaySettingsExW(nullptr..)
    exit,           \* the process exit status, Running until the run returns
    applied,        \* the display service: the settings in force of every
                    \* device read, applied[dev] = [x, y, isPrimary]
    staged,         \* the display service: the settings written with
                    \* CDS_NORESET and not applied yet
    history         \* the snapshots of the earlier runs of the program

vars == <<pc, devs, i, displays, currentPrimary, targetIndex, offsetX, offsetY,
          k, writes, applies, exit, applied, staged, history>>

Init ==
    /\ pc = "enum"
    /\ devs = <<>>
    /\ i = 0
    /\ displays = <<>>
    /\ currentPrimary = -1
    /\ targetIndex = -1
    /\ offsetX = 0
    /\ offsetY = 0
    /\ k = 0
    /\ writes = <<>>
    /\ applies = <<>>
    /\ exit = Running
    /\ applied = NoSettings
    /\ staged = NoSettings
    /\ history = <<>>

(***************************************************************************)
(* EnumerateDisplays, main.cpp:33-60.                                      *)
(***************************************************************************)
\* Variant of Considered: the mirroring test of main.cpp:44 left out.
ConsideredIgnoringMirroring(flags) == "ATTACHED_TO_DESKTOP" \in flags

\* main.cpp:43-44: only displays attached to the desktop and not mirroring.
Considered(flags) ==
    /\ "ATTACHED_TO_DESKTOP" \in flags
    /\ "MIRRORING_DRIVER" \notin flags

\* main.cpp:56.
IsPrimaryFlag(flags) == "PRIMARY_DEVICE" \in flags

\* The first run of the program: the service's device table is not known yet,
\* and each answer of the service is drawn when the call is made.  A later
\* run is given the same devices again, with the settings then in force.
FirstRun == history = <<>>

\* EnumDisplayDevicesW(nullptr, i, ..) returns FALSE: the loop breaks and
\* EnumerateDisplays returns (main.cpp:38-40, 59).
EnumEnd ==
    /\ pc = "enum"
    /\ i >= Len(devs)
    /\ pc' = "select"
    /\ UNCHANGED <<devs, i, displays, currentPrimary, targetIndex, offsetX,
                   offsetY, k, writes, applies, exit, applied, staged, history>>

\* The device is not attached or is a mirroring driver: continue
\* (main.cpp:43-44).
EnumSkip ==
    /\ pc = "enum"
    /\ FirstRun
    /\ i < MaxDevices
    /\ \E flags \in SUBSET StateFlagBits :
        /\ ~Considered(flags)
        /\ devs' = Append(devs, [StateFlags |-> flags, read |-> "none"])
    /\ i' = i + 1
    /\ UNCHANGED <<pc, displays, currentPrimary, targetIndex, offsetX, offsetY,
                   k, writes, applies, exit, applied, staged, history>>

\* Variant of EnumReadFail: the continue of main.cpp:50 left out, so that the
\* device is pushed with the zero-initialised DEVMODEW.
EnumReadFailPushes ==
    /\ pc = "enum"
    /\ FirstRun
    /\ i < MaxDevices
    /\ \E flags \in SUBSET StateFlagBits :
        /\ Considered(flags)
        /\ devs' = Append(devs, [StateFlags |-> flags, read |-> "fail"])
        /\ displays' = Append(displays,
                              [DeviceName |-> i, x |-> 0, y |-> 0,
                               isPrimary |-> IsPrimaryFlag(flags)])
    /\ i' = i + 1
    /\ UNCHANGED <<pc, currentPrimary, targetIndex, offsetX, offsetY,
                   k, writes, applies, exit, applied, staged, history>>

\* EnumDisplaySettingsExW fails for a considered device: diagnostic, continue
\* (main.cpp:48-51).
EnumReadFail ==
    /\ pc = "enum"
    /\ FirstRun
    /\ i < MaxDevices
    /\ \E flags \in SUBSET StateFlagBits :
        /\ Considered(flags)
        /\ devs' = Append(devs, [StateFlags |-> flags, read |-> "fail"])
    /\ i' = i + 1
    /\ UNCHANGED <<pc, displays, currentPrimary, targetIndex, offsetX, offsetY,
                   k, writes, applies, exit, applied, staged, history>>

\* The settings read succeeds: the display is pushed (main.cpp:53-57).
EnumPush ==
    /\ pc = "enum"
    /\ FirstRun
    /\ i < MaxDevices
    /\ \E flags \in SUBSET StateFlagBits, pos \in Positions :
        /\ Considered(flags)
        /\ devs' = Append(devs, [StateFlags |-> flags, read |-> "ok"])
        /\ displays' = Append(displays,
                              [DeviceName |-> i, x |-> pos[1], y |-> pos[2],
                               isPrimary |-> IsPrimaryFlag(flags)])
        /\ applied' = WithSettings(applied, i,
                                   [x |-> pos[1], y |-> pos[2],
                                    isPrimary |-> IsPrimaryFlag(flags)])
    /\ i' = i + 1
    /\ UNCHANGED <<pc, currentPrimary, targetIndex, offsetX, offsetY,
                   k, writes, applies, exit, staged, history>>

\* The StateFlags the service reports for device dev in a later run: those
\* of the first run, with the primary bit where the settings in force put it.
LiveFlags(dev) ==
    IF dev \in DOMAIN applied
    THEN (devs[dev + 1].StateFlags \ {"PRIMARY_DEVICE"})
            \cup (IF applied[dev].isPrimary THEN {"PRIMARY_DEVICE"} ELSE {})
    ELSE devs[dev + 1].StateFlags

\* One iteration of the loop of EnumerateDisplays in a later run
\* (main.cpp:35-58): device i is reported as before; it is skipped if it is
\* not considered or its settings read fails again, and pushed with the
\* settings in force otherwise.
EnumReplay ==
    /\ pc = "enum"
    /\ ~FirstRun
    /\ i < Len(devs)
    /\ displays' =
        IF Considered(LiveFlags(i)) /\ devs[i + 1].read = "ok"
        THEN Append(displays,
                    [DeviceName |-> i, x |-> applied[i].x, y |-> applied[i].y,
                     isPrimary |-> IsPrimaryFlag(LiveFlags(i))])
        ELSE displays
    /\ i' = i + 1
    /\ UNCHANGED <<pc, devs, currentPrimary, targetIndex, offsetX, offsetY,
                   k, writes, applies, exit, applied, staged, history>>

(***************************************************************************)
(* SwitchPrimaryToNext after the enumeration, main.cpp:62-89.              *)
(***************************************************************************)
\* Variant of EnumerateResult: the emptiness of the vector not reported.
EnumerateResultAlwaysFound(out) == TRUE

\* The return value of EnumerateDisplays, main.cpp:59.
EnumerateResult(out) == out # <<>>

\* main.cpp:70-73: the index of the first display with isPrimary, scanning
\* from index j; -1 when there is none.
RECURSIVE FirstPrimaryFrom(_, _)
FirstPrimaryFrom(ds, j) ==
    IF j >= Len(ds) THEN -1
    ELSE IF ds[j + 1].isPrimary THEN j
    ELSE FirstPrimaryFrom(ds, j + 1)

\* Variant of FindPrimary: the break of main.cpp:72 left out, so that the
\* last display with isPrimary is taken.
RECURSIVE LastPrimaryFrom(_, _, _)
LastPrimaryFrom(ds, j, found) ==
    IF j >= Len(ds) THEN found
    ELSE LastPrimaryFrom(ds, j + 1, IF ds[j + 1].isPrimary THEN j ELSE found)

FindPrimaryLast(ds) == LastPrimaryFrom(ds, 0, -1)

\* Variant of FindPrimary: the display at the origin taken as the primary.
RECURSIVE FirstAtOriginFrom(_, _)
FirstAtOriginFrom(ds, j) ==
    IF j >= Len(ds) THEN -1
    ELSE IF ds[j + 1].x = 0 /\ ds[j + 1].y = 0 THEN j
    ELSE FirstAtOriginFrom(ds, j + 1)

FindPrimaryAtOrigin(ds) == FirstAtOriginFrom(ds, 0)

\* Variant of FindPrimary: index 0 guessed when no display is primary.
FindPrimaryDefaultFirst(ds) ==
    IF FirstPrimaryFrom(ds, 0) < 0 THEN 0 ELSE FirstPrimaryFrom(ds, 0)

\* main.cpp:70-73: currentPrimary after the loop.
FindPrimary(ds) == FirstPrimaryFrom(ds, 0)

\* Variant of OnlyOneDisplay: the single-display test of main.cpp:79 left out.
OnlyOneDisplayNeverChecked(ds) == FALSE

\* main.cpp:79.
OnlyOneDisplay(ds) == Len(ds) = 1

\* Variant of NextIndex: the successor clamped to the last index, no wrap.
NextIndexNoWrap(cp, n) == IF cp + 1 < n THEN cp + 1 ELSE cp

\* main.cpp:84.
NextIndex(cp, n) == (cp + 1) % n

\* Variants of Succeeded: the result not tested; only negative codes taken
\* as failures.
SucceededAlways(res) == TRUE
SucceededUnlessNegative(res) == res >= 0

\* main.cpp:100, 118, 127.
Succeeded(res) == res = DISP_CHANGE_SUCCESSFUL

\* main.cpp:64-67: no display was enumerated.
NoDisplays ==
    /\ pc = "select"
    /\ ~EnumerateResult(displays)
    /\ exit' = ExitNoDisplays
    /\ pc' = "done"
    /\ UNCHANGED <<devs, i, displays, currentPrimary, targetIndex, offsetX,
                   offsetY, k, writes, applies, applied, staged, history>>

\* main.cpp:69-77: no display of the snapshot is primary.
NoPrimary ==
    /\ pc = "select"
    /\ EnumerateResult(displays)
    /\ FindPrimary(displays) < 0
    /\ currentPrimary' = FindPrimary(displays)
    /\ exit' = ExitNoPrimary
    /\ pc' = "done"
    /\ UNCHANGED <<devs, i, displays, targetIndex, offsetX, offsetY, k, writes,
                   applies, applied, staged, history>>

\* main.cpp:79-82: a single display, nothing to switch.
OnlyOne ==
    /\ pc = "select"
    /\ EnumerateResult(displays)
    /\ FindPrimary(displays) >= 0
    /\ OnlyOneDisplay(displays)
    /\ currentPrimary' = FindPrimary(displays)
    /\ exit' = ExitSuccess
    /\ pc' = "done"
    /\ UNCHANGED <<devs, i, displays, targetIndex, offsetX, offsetY, k, writes,
                   applies, applied, staged, history>>

\* main.cpp:84-89: the target and the offset that rebases it to (0,0).
SelectTarget ==
    /\ pc = "select"
    /\ EnumerateResult(displays)
    /\ FindPrimary(displays) >= 0
    /\ ~OnlyOneDisplay(displays)
    /\ currentPrimary' = FindPrimary(displays)
    /\ LET t == NextIndex(FindPrimary(displays), Len(displays)) IN
        /\ targetIndex' = t
        /\ offsetX' = NegLong(displays[t + 1].x)
        /\ offsetY' = NegLong(displays[t + 1].y)
    /\ pc' = "target"
    /\ UNCHANGED <<devs, i, displays, k, writes, applies, exit, applied, staged,
                   history>>

(***************************************************************************)
(* The writes, main.cpp:91-133.                                            *)
(***************************************************************************)
\* Variant of WriteCall: the snapshot position passed on without the offset.
WriteCallNoRebase(d, flags, res) ==
    [DeviceName |-> d.DeviceName, x |-> d.x, y |-> d.y,
     flags |-> flags, res |-> res]

\* Variant of WriteCall: the position of the display read again from the
\* service before the write.
WriteCallRereads(d, flags, res) ==
    [DeviceName |-> d.DeviceName,
     x |-> AddLong(applied[d.DeviceName].x, offsetX),
     y |-> AddLong(applied[d.DeviceName].y, offsetY),
     flags |-> flags,
     res |-> res]

\* The ChangeDisplaySettingsExW call for display d: its device, the
\* dmPosition of the DEVMODE passed, the dwflags and the result returned.
WriteCall(d, flags, res) ==
    [DeviceName |-> d.DeviceName,
     x |-> AddLong(d.x, offsetX),
     y |-> AddLong(d.y, offsetY),
     flags |-> flags,
     res |-> res]

\* main.cpp:91-105: the target is written first, with CDS_SET_PRIMARY.
WriteTarget ==
    /\ pc = "target"
    /\ \E res \in ChangeResults :
        LET call == WriteCall(displays[targetIndex + 1], TargetFlags, res) IN
        /\ writes' = Append(writes, call)
        /\ staged' = StagedAfter(staged, call)
        /\ applied' = AppliedAfter(applied, call)
        /\ IF Succeeded(res)
           THEN pc' = "others" /\ exit' = exit
           ELSE pc' = "done" /\ exit' = ExitTargetWriteFailed
    /\ k' = 0
    /\ UNCHANGED <<devs, i, displays, currentPrimary, targetIndex, offsetX,
                   offsetY, applies, history>>

\* main.cpp:109: the reposition loop passes over the target.
OtherSkip ==
    /\ pc = "others"
    /\ k < Len(displays)
    /\ k = targetIndex
    /\ k' = k + 1
    /\ UNCHANGED <<pc, devs, i, displays, currentPrimary, targetIndex, offsetX,
                   offsetY, writes, applies, exit, applied, staged, history>>

\* Variant of OtherWrite: a refused write is reported and the loop goes on.
OtherWriteContinues ==
    /\ pc = "others"
    /\ k < Len(displays)
    /\ k # targetIndex
    /\ \E res \in ChangeResults :
        LET call == WriteCall(displays[k + 1], OtherFlags, res) IN
        /\ writes' = Append(writes, call)
        /\ staged' = StagedAfter(staged, call)
        /\ applied' = AppliedAfter(applied, call)
    /\ k' = k + 1
    /\ UNCHANGED <<pc, devs, i, displays, currentPrimary, targetIndex, offsetX,
                   offsetY, applies, exit, history>>

\* Variant of OtherWrite: a refused write is tried again.
OtherWriteRetries ==
    /\ pc = "others"
    /\ k < Len(displays)
    /\ k # targetIndex
    /\ \E res \in ChangeResults :
        LET call == WriteCall(displays[k + 1], OtherFlags, res) IN
        /\ writes' = Append(writes, call)
        /\ staged' = StagedAfter(staged, call)
        /\ applied' = AppliedAfter(applied, call)
        /\ k' = IF Succeeded(res) THEN k + 1 ELSE k
    /\ UNCHANGED <<pc, devs, i, displays, currentPrimary, targetIndex, offsetX,
                   offsetY, applies, exit, history>>

\* main.cpp:110-122: every other display is moved by the offset.
OtherWrite ==
    /\ pc = "others"
    /\ k < Len(displays)
    /\ k # targetIndex
    /\ \E res \in ChangeResults :
        LET call == WriteCall(displays[k + 1], OtherFlags, res) IN
        /\ writes' = Append(writes, call)
        /\ staged' = StagedAfter(staged, call)
        /\ applied' = AppliedAfter(applied, call)
        /\ IF Succeeded(res)
           THEN pc' = "others" /\ exit' = exit /\ k' = k + 1
           ELSE pc' = "done" /\ exit' = ExitOtherWriteFailed /\ k' = k
    /\ UNCHANGED <<devs, i, displays, currentPrimary, targetIndex, offsetX,
                   offsetY, applies, history>>

\* main.cpp:125-133: the final apply, with no device.
Apply ==
    /\ pc = "others"
    /\ k >= Len(displays)
    /\ \E res \in ChangeResults :
        /\ applies' = Append(applies, res)
        /\ applied' = AppliedAfterApply(applied, staged, res)
        /\ staged' = StagedAfterApply(staged, res)
        /\ exit' = IF Succeeded(res) THEN ExitSuccess ELSE ExitApplyFailed
    /\ pc' = "done"
    /\ UNCHANGED <<devs, i, displays, currentPrimary, targetIndex, offsetX,
                   offsetY, k, writes, history>>

Next ==
    \/ EnumEnd
    \/ EnumSkip
    \/ EnumReadFail
    \/ EnumPush
    \/ NoDisplays
    \/ NoPrimary
    \/ OnlyOne
    \/ SelectTarget
    \/ WriteTarget
    \/ OtherSkip
    \/ OtherWrite
    \/ Apply

Spec == Init /\ [][Next]_vars

(***************************************************************************)
(* Repeated runs: after a run that ended with exit status 0 the program    *)
(* is started again (wWinMain, main.cpp:146-149) against the same service. *)
(***************************************************************************)
Restart ==
    /\ pc = "done"
    /\ exit = ExitSuccess
    /\ Len(history) < MaxRuns
    /\ history' = Append(history, displays)
    /\ pc' = "enum"
    /\ i' = 0
    /\ displays' = <<>>
    /\ currentPrimary' = -1
    /\ targetIndex' = -1
    /\ offsetX' = 0
    /\ offsetY' = 0
    /\ k' = 0
    /\ writes' = <<>>
    /\ applies' = <<>>
    /\ exit' = Running
    /\ UNCHANGED <<devs, applied, staged>>

\* In the runs after the first the service accepts every write and the
\* apply, so that the runs follow one another.
ServiceAccepts ==
    exit' \in {Running, ExitSuccess}

NextRepeated ==
    \/ FirstRun /\ Next
    \/ ~FirstRun /\ Next /\ ServiceAccepts
    \/ EnumReplay
    \/ Restart

SpecRepeated == Init /\ [][NextRepeated]_vars

(***************************************************************************)
(* A single run beside another process that changes the display settings   *)
(* while the writes are in progress (section 5 of the specification).      *)
(***************************************************************************)
\* The settings in force are those the snapshot holds.
AppliedIsSnapshot ==
    \A j \in 1..Len(displays) :
        applied[displays[j].DeviceName] =
            [x |-> displays[j].x, y |-> displays[j].y,
             isPrimary |-> displays[j].isPrimary]

\* Another process moves the display about to be written one monitor width
\* to the right, or changes its primary designation, once.
ExternalChange ==
    /\ pc = "others"
    /\ k < Len(displays)
    /\ k # targetIndex
    /\ AppliedIsSnapshot
    /\ LET d == displays[k + 1].DeviceName
       IN  \/ applied' = WithSettings(applied, d,
                              [applied[d] EXCEPT !.x = AddLong(@, 1920)])
           \/ applied' = WithSettings(applied, d,
                              [applied[d] EXCEPT !.isPrimary = ~@])
    /\ UNCHANGED <<pc, devs, i, displays, currentPrimary, targetIndex, offsetX,
                   offsetY, k, writes, applies, exit, staged, history>>

NextRace == Next \/ ExternalChange

SpecRace == Init /\ [][NextRace]_vars

(***************************************************************************)
(* A single run in which every enabled step of the program is eventually   *)
(* taken: the program is single-threaded and each service call returns.    *)
(***************************************************************************)
SpecFair == Spec /\ WF_vars(Next)

(***************************************************************************)
(* Vocabulary of the properties.                                           *)
(***************************************************************************)
\* The number of monitors in the snapshot.
N == Len(displays)

\* The snapshot is complete: EnumerateDisplays has returned.
Enumerated == pc # "enum"

\* The run has returned.
Done == pc = "done"

\* The snapshot indices (from 0) of the monitors flagged primary.
Primaries == {j \in 0..(N - 1) : displays[j + 1].isPrimary}

\* N >= 2 with exactly one primary.
ValidTopology == N >= 2 /\ Cardinality(Primaries) = 1

\* The device name of the monitor at snapshot index j.
Dev(j) == displays[j + 1].DeviceName

\* The positions in writes of the calls addressed to device dev.
WritesTo(dev) == {q \in 1..Len(writes) : writes[q].DeviceName = dev}

\* The positions in writes of the calls that returned success.
Accepted == {q \in 1..Len(writes) : writes[q].res = DISP_CHANGE_SUCCESSFUL}

\* The positions in writes of the calls that returned a failure code.
Rejected == {q \in 1..Len(writes) : writes[q].res # DISP_CHANGE_SUCCESSFUL}

\* The StateFlags the service reported for device dev.
FlagsOf(dev) == devs[dev + 1].StateFlags

(***************************************************************************)
(* C1. With N >= 2 monitors and exactly one primary, at index p, the       *)
(* target selected is index (p+1) mod N, index 0 when p = N-1, and the     *)
(* first write of the run is addressed to that monitor.                    *)
(***************************************************************************)
C1_TargetIsCyclicSuccessor ==
    (Enumerated /\ pc # "select" /\ ValidTopology) =>
        \A p \in Primaries :
            /\ targetIndex = (p + 1) % N
            /\ (p = N - 1) => (targetIndex = 0)
            /\ (writes # <<>>) => (writes[1].DeviceName = Dev((p + 1) % N))

\* Three monitors, the last one primary: the run wrapped round to index 0
\* and wrote it.
C1_Witness ==
    /\ Done
    /\ N = 3
    /\ Primaries = {2}
    /\ targetIndex = 0
    /\ writes # <<>>
    /\ writes[1].DeviceName = Dev(0)

(***************************************************************************)
(* C2 as stated. With exactly one monitor in the snapshot, whatever its    *)
(* primary flag, the run ends with exit status 0 and issues no             *)
(* write_settings and no apply_staged call.                                *)
(***************************************************************************)
C2_Original ==
    (Done /\ N = 1) =>
        (exit = ExitSuccess /\ writes = <<>> /\ applies = <<>>)

(***************************************************************************)
(* C2 as amended. With exactly one monitor in the snapshot the run issues  *)
(* no write_settings and no apply_staged call; it ends with exit status 0  *)
(* when that monitor is primary and with exit status 2 when it is not.     *)
(***************************************************************************)
C2_SingleMonitor ==
    (Enumerated /\ N = 1) =>
        /\ writes = <<>>
        /\ applies = <<>>
        /\ targetIndex = -1
        /\ Done => (exit = IF displays[1].isPrimary THEN 0 ELSE 2)

\* A run over a single, primary monitor has returned 0.
C2_Witness ==
    /\ Done
    /\ N = 1
    /\ displays[1].isPrimary
    /\ exit = 0
    /\ writes = <<>>

(***************************************************************************)
(* C3. With an empty snapshot (no device, or every device skipped, also    *)
(* because its settings read failed) the run ends with exit status 1 and   *)
(* issues no write_settings and no apply_staged call.                      *)
(***************************************************************************)
C3_NoDisplays ==
    (Enumerated /\ N = 0) =>
        /\ writes = <<>>
        /\ applies = <<>>
        /\ targetIndex = -1
        /\ Done => (exit = 1)

\* Every attached device was skipped because its settings read failed, and
\* the run has returned 1.
C3_Witness ==
    /\ Done
    /\ N = 0
    /\ Len(devs) >= 2
    /\ \A d \in 1..Len(devs) : devs[d].read = "fail"
    /\ exit = 1

(***************************************************************************)
(* C4. With a non-empty snapshot in which no monitor is primary, the run   *)
(* ends with exit status 2, selects no target and issues no write_settings *)
(* and no apply_staged call.                                               *)
(***************************************************************************)
C4_IndeterminatePrimary ==
    (Enumerated /\ N >= 1 /\ Primaries = {}) =>
        /\ pc \in {"select", "done"}
        /\ targetIndex = -1
        /\ writes = <<>>
        /\ applies = <<>>
        /\ Done => (exit = 2)

\* Two monitors, neither primary, and the run has returned 2.
C4_Witness ==
    /\ Done
    /\ N = 2
    /\ Primaries = {}
    /\ exit = 2

(***************************************************************************)
(* C5. For a valid topology, after a run that ended with exit status 0,    *)
(* the target was written exactly once, that write was accepted, carried   *)
(* position (0,0) and the set-primary flag, and the final apply succeeded. *)
(***************************************************************************)
C5_TargetAtOrigin ==
    (Done /\ exit = 0 /\ ValidTopology) =>
        /\ applies = <<DISP_CHANGE_SUCCESSFUL>>
        /\ \E q \in 1..Len(writes) :
            /\ WritesTo(Dev(targetIndex)) = {q}
            /\ writes[q].x = 0
            /\ writes[q].y = 0
            /\ "CDS_SET_PRIMARY" \in writes[q].flags
            /\ writes[q].res = DISP_CHANGE_SUCCESSFUL

\* A successful run whose target was away from the origin in the snapshot.
C5_Witness ==
    /\ Done
    /\ exit = 0
    /\ ValidTopology
    /\ displays[targetIndex + 1].x = 1920
    /\ displays[targetIndex + 1].y # 0
    /\ \E q \in WritesTo(Dev(targetIndex)) : writes[q].x = 0 /\ writes[q].y = 0

(***************************************************************************)
(* C6. For a valid topology, after a run that ended with exit status 0,    *)
(* every non-target monitor was written the position: its snapshot         *)
(* position minus the target's snapshot position, so that the difference   *)
(* between the positions of any two monitors is what it was in the         *)
(* snapshot.                                                               *)
(***************************************************************************)
C6_TranslationInvariance ==
    (Done /\ exit = 0 /\ ValidTopology) =>
        \A j \in 0..(N - 1) :
            (j # targetIndex) =>
                \E q \in 1..Len(writes) :
                    /\ WritesTo(Dev(j)) = {q}
                    /\ writes[q].x = displays[j + 1].x - displays[targetIndex + 1].x
                    /\ writes[q].y = displays[j + 1].y - displays[targetIndex + 1].y

\* The example of the specification: [A(0,0,primary), B(1920,0), C(-1920,0)]
\* ends with B written (0,0) with set-primary, A (-1920,0) and C (-3840,0).
C6_ExampleReached ==
    /\ Done
    /\ exit = 0
    /\ N = 3
    /\ Primaries = {0}
    /\ <<displays[1].x, displays[1].y>> = <<0, 0>>
    /\ <<displays[2].x, displays[2].y>> = <<1920, 0>>
    /\ <<displays[3].x, displays[3].y>> = <<-1920, 0>>
    /\ Len(writes) = 3
    /\ <<writes[1].DeviceName, writes[1].x, writes[1].y>> = <<Dev(1), 0, 0>>
    /\ "CDS_SET_PRIMARY" \in writes[1].flags
    /\ <<writes[2].DeviceName, writes[2].x, writes[2].y>> = <<Dev(0), -1920, 0>>
    /\ <<writes[3].DeviceName, writes[3].x, writes[3].y>> = <<Dev(2), -3840, 0>>

(***************************************************************************)
(* C7. If the write for the target returns a failure code, the run ends    *)
(* with exit status 3, that write is the only write_settings call of the   *)
(* run and apply_staged is never invoked.                                  *)
(***************************************************************************)
C7_TargetWriteFailure ==
    \A q \in Rejected :
        (targetIndex >= 0 /\ writes[q].DeviceName = Dev(targetIndex)) =>
            /\ Done
            /\ exit = 3
            /\ Len(writes) = 1
            /\ applies = <<>>

\* Three monitors, and the write for the target was refused.
C7_Witness ==
    /\ Done
    /\ N = 3
    /\ exit = 3
    /\ Len(writes) = 1
    /\ writes[1].DeviceName = Dev(targetIndex)
    /\ writes[1].res = DISP_CHANGE_FAILED

(***************************************************************************)
(* C8. If the write for a non-target monitor at snapshot index j fails,    *)
(* the run ends with exit status 4, apply_staged is never invoked, no      *)
(* write is issued for a non-target monitor of index > j, and the target   *)
(* and every non-target monitor of index < j have had exactly one write    *)
(* issued, which was accepted.                                             *)
(***************************************************************************)
C8_OtherWriteFailure ==
    \A q \in Rejected :
        \A j \in 0..(N - 1) :
            (j # targetIndex /\ writes[q].DeviceName = Dev(j)) =>
                /\ Done
                /\ exit = 4
                /\ applies = <<>>
                /\ WritesTo(Dev(j)) = {q}
                /\ \A m \in 0..(N - 1) :
                    /\ (m > j /\ m # targetIndex) => (WritesTo(Dev(m)) = {})
                    /\ (m < j \/ m = targetIndex) =>
                        /\ Cardinality(WritesTo(Dev(m))) = 1
                        /\ WritesTo(Dev(m)) \subseteq Accepted

\* Three monitors, the target in the middle; the write for the monitor at
\* index 2 was refused after those for the target and for index 0 were
\* accepted.
C8_Witness ==
    /\ Done
    /\ exit = 4
    /\ N = 3
    /\ targetIndex = 1
    /\ Len(writes) = 3
    /\ writes[3].DeviceName = Dev(2)
    /\ writes[3].res = DISP_CHANGE_RESTART
    /\ {1, 2} \subseteq Accepted

\* Three monitors; the write for the monitor at index 0 was refused and the
\* non-target monitor at index 2 was never written.
C8_LaterUnwritten ==
    /\ Done
    /\ exit = 4
    /\ N = 3
    /\ targetIndex = 1
    /\ Len(writes) = 2
    /\ writes[2].DeviceName = Dev(0)
    /\ WritesTo(Dev(2)) = {}

(***************************************************************************)
(* C9. The exit status of a run is in 0..5 and names its outcome: 1 iff    *)
(* the snapshot is empty; 2 iff it is non-empty with no primary; 3 iff the *)
(* target write failed; 4 iff a non-target write failed; 5 iff all N       *)
(* device writes were accepted and the final apply failed; 0 iff the run   *)
(* was the single-monitor no-op or all N writes and the final apply        *)
(* succeeded.  A run that has not returned has no exit status.             *)
(***************************************************************************)
TargetWriteFailed ==
    \E q \in Rejected : "CDS_SET_PRIMARY" \in writes[q].flags

OtherWriteFailed ==
    \E q \in Rejected : "CDS_SET_PRIMARY" \notin writes[q].flags

AllWritesAccepted ==
    /\ N >= 2
    /\ Len(writes) = N
    /\ Rejected = {}
    /\ \A j \in 0..(N - 1) : Cardinality(WritesTo(Dev(j))) = 1

SingleMonitorNoOp ==
    /\ N = 1
    /\ Primaries = {0}
    /\ writes = <<>>
    /\ applies = <<>>

C9_ExitStatusNamesOutcome ==
    /\ Done <=> (exit # Running)
    /\ Done =>
        /\ exit \in 0..5
        /\ (exit = 1) <=> (N = 0)
        /\ (exit = 2) <=> (N >= 1 /\ Primaries = {})
        /\ (exit = 3) <=> TargetWriteFailed
        /\ (exit = 4) <=> OtherWriteFailed
        /\ (exit = 5) <=>
            (AllWritesAccepted /\ Len(applies) = 1
             /\ applies[1] # DISP_CHANGE_SUCCESSFUL)
        /\ (exit = 0) <=>
            \/ SingleMonitorNoOp
            \/ (AllWritesAccepted /\ applies = <<DISP_CHANGE_SUCCESSFUL>>)

\* A run in which all three writes were accepted and the final apply failed.
C9_Witness ==
    /\ Done
    /\ exit = 5
    /\ N = 3
    /\ AllWritesAccepted
    /\ applies = <<DISP_CHANGE_FAILED>>

(***************************************************************************)
(* C10. A device flagged as a mirroring driver, or not flagged as attached *)
(* to the desktop, is never in the snapshot, never counted in N, never the *)
(* target and never the addressee of a write_settings call.                *)
(***************************************************************************)
\* The devices (by index) reported so far that are attached to the desktop
\* and are no mirroring drivers.
Eligible ==
    {d \in 0..(Len(devs) - 1) :
        /\ "ATTACHED_TO_DESKTOP" \in FlagsOf(d)
        /\ "MIRRORING_DRIVER" \notin FlagsOf(d)}

C10_ExcludedDevicesUntouched ==
    /\ \A j \in 0..(N - 1) : Dev(j) \in Eligible
    /\ N <= Cardinality(Eligible)
    /\ N = Cardinality({Dev(j) : j \in 0..(N - 1)})
    /\ (targetIndex >= 0) => (Dev(targetIndex) \in Eligible)
    /\ \A q \in 1..Len(writes) : writes[q].DeviceName \in Eligible

\* A successful run over two monitors beside an attached mirroring driver
\* that carries the primary flag.
C10_Witness ==
    /\ Done
    /\ exit = 0
    /\ N = 2
    /\ Len(writes) = 2
    /\ \E d \in 0..(Len(devs) - 1) :
        FlagsOf(d) = {"ATTACHED_TO_DESKTOP", "MIRRORING_DRIVER", "PRIMARY_DEVICE"}

\* A successful run over two monitors beside a device that is not attached
\* to the desktop.
C10_DetachedSkipped ==
    /\ Done
    /\ exit = 0
    /\ N = 2
    /\ Len(writes) = 2
    /\ \E d \in 0..(Len(devs) - 1) : "ATTACHED_TO_DESKTOP" \notin FlagsOf(d)

(***************************************************************************)
(* C11. A device whose settings read fails is left out of the snapshot,    *)
(* and only that device: the snapshot holds exactly the devices whose      *)
(* read succeeded, in the order of the enumeration.  The failed read       *)
(* leaves the run in the enumeration, with the snapshot as it was and no   *)
(* exit status.                                                            *)
(***************************************************************************)
\* The devices (by index) whose settings read succeeded / failed.
ReadOk == {d \in 0..(Len(devs) - 1) : devs[d + 1].read = "ok"}
ReadFailed == {d \in 0..(Len(devs) - 1) : devs[d + 1].read = "fail"}

SnapshotIsReadableDevicesInOrder ==
    /\ {Dev(j) : j \in 0..(N - 1)} = ReadOk
    /\ \A j1, j2 \in 0..(N - 1) : (j1 < j2) => (Dev(j1) < Dev(j2))
    /\ \A d \in ReadFailed :
        /\ "ATTACHED_TO_DESKTOP" \in FlagsOf(d)
        /\ "MIRRORING_DRIVER" \notin FlagsOf(d)

FailedReadIsSkipped ==
    (Len(devs') = Len(devs) + 1 /\ devs'[Len(devs')].read = "fail") =>
        /\ pc' = "enum"
        /\ i' = i + 1
        /\ displays' = displays
        /\ exit' = Running

C11_UnreadableDeviceSkipped ==
    /\ []SnapshotIsReadableDevicesInOrder
    /\ [][FailedReadIsSkipped]_vars

\* A successful run over the two monitors that follow a device whose
\* settings read failed.
C11_Witness ==
    /\ Done
    /\ exit = 0
    /\ ReadFailed = {0}
    /\ N = 2
    /\ Dev(0) = 1
    /\ Dev(1) = 2
    /\ Len(writes) = 2

(***************************************************************************)
(* C14. The write_settings calls of a run are: first the target, with the  *)
(* set-primary, persist and defer-apply flags; then the other monitors in  *)
(* strictly increasing snapshot index, each with persist and defer-apply   *)
(* and without set-primary.  No monitor is written twice and at most one   *)
(* write carries set-primary.                                              *)
(***************************************************************************)
\* The snapshot index of the monitor with device name dev.
IndexOf(dev) == CHOOSE j \in 0..(N - 1) : Dev(j) = dev

C14_WriteOrder ==
    /\ (writes # <<>>) =>
        /\ writes[1].DeviceName = Dev(targetIndex)
        /\ writes[1].flags = {"CDS_SET_PRIMARY", "CDS_UPDATEREGISTRY", "CDS_NORESET"}
    /\ \A q \in 2..Len(writes) :
        /\ writes[q].DeviceName # Dev(targetIndex)
        /\ writes[q].DeviceName \in {Dev(j) : j \in 0..(N - 1)}
        /\ writes[q].flags = {"CDS_UPDATEREGISTRY", "CDS_NORESET"}
    /\ \A q1, q2 \in 2..Len(writes) :
        (q1 < q2) => (IndexOf(writes[q1].DeviceName) < IndexOf(writes[q2].DeviceName))
    /\ \A q1, q2 \in 1..Len(writes) :
        (writes[q1].DeviceName = writes[q2].DeviceName) => (q1 = q2)
    /\ Cardinality({q \in 1..Len(writes) : "CDS_SET_PRIMARY" \in writes[q].flags}) <= 1

\* Three monitors with the target in the middle: the writes went to index
\* 1, then 0, then 2.
C14_Witness ==
    /\ N = 3
    /\ targetIndex = 1
    /\ Len(writes) = 3
    /\ <<writes[1].DeviceName, writes[2].DeviceName, writes[3].DeviceName>>
        = <<Dev(1), Dev(0), Dev(2)>>

(***************************************************************************)
(* C15. apply_staged is invoked at most once in a run; it is invoked if    *)
(* and only if N >= 2, a primary was found and all N write_settings calls  *)
(* were accepted; it is the last service call of the run; so exit status   *)
(* 5 implies that every monitor of the snapshot had its write accepted.    *)
(***************************************************************************)
C15_ApplyOnceAfterAllWrites ==
    /\ Len(applies) <= 1
    /\ (applies # <<>>) =>
        /\ Done
        /\ N >= 2
        /\ Primaries # {}
        /\ AllWritesAccepted
    /\ (Done /\ N >= 2 /\ Primaries # {} /\ AllWritesAccepted) => (applies # <<>>)
    /\ (exit = 5) => AllWritesAccepted

\* The run stands before the final apply: all three writes were accepted
\* and apply_staged has not been invoked yet ...
C15_BeforeApply ==
    /\ pc = "others"
    /\ N = 3
    /\ AllWritesAccepted
    /\ applies = <<>>

\* ... and a run over three monitors whose apply was invoked, once, and
\* failed.
C15_Witness ==
    /\ Done
    /\ N = 3
    /\ AllWritesAccepted
    /\ Len(applies) = 1
    /\ exit = 5

(***************************************************************************)
(* C19. When more than one monitor of the snapshot carries the primary     *)
(* flag, the run does not end with the "indeterminate primary" failure: it *)
(* takes the flagged monitor of lowest index as the current primary p,     *)
(* selects (p+1) mod N and issues the writes.                              *)
(***************************************************************************)
\* The lowest snapshot index flagged primary.
LowestPrimary == CHOOSE p \in Primaries : \A p2 \in Primaries : p <= p2

C19_SeveralPrimaries ==
    (Enumerated /\ pc # "select" /\ Cardinality(Primaries) >= 2) =>
        /\ exit # 2
        /\ currentPrimary = LowestPrimary
        /\ targetIndex = (LowestPrimary + 1) % N
        /\ (pc # "target") =>
            /\ writes # <<>>
            /\ writes[1].DeviceName = Dev((LowestPrimary + 1) % N)

\* Three monitors, the last two flagged primary: the run took index 1 as
\* the primary and wrote index 2 first.
C19_Witness ==
    /\ Done
    /\ exit = 0
    /\ N = 3
    /\ Primaries = {1, 2}
    /\ targetIndex = 2
    /\ writes[1].DeviceName = Dev(2)

(***************************************************************************)
(* C20. For every snapshot the offset is minus the target's position and   *)
(* every position written is the monitor's snapshot position minus the     *)
(* target's, as integers: no step of the computation wraps round.          *)
(***************************************************************************)
C20_NoWrapAround ==
    (targetIndex >= 0) =>
        /\ offsetX = 0 - displays[targetIndex + 1].x
        /\ offsetY = 0 - displays[targetIndex + 1].y
        /\ \A q \in 1..Len(writes) :
            /\ writes[q].x = displays[IndexOf(writes[q].DeviceName) + 1].x
                                - displays[targetIndex + 1].x
            /\ writes[q].y = displays[IndexOf(writes[q].DeviceName) + 1].y
                                - displays[targetIndex + 1].y

\* What the code computes: the same values reduced to the width of LONG.
C20_WrappedValues ==
    (targetIndex >= 0) =>
        /\ offsetX = WrapLong(0 - displays[targetIndex + 1].x)
        /\ offsetY = WrapLong(0 - displays[targetIndex + 1].y)
        /\ \A q \in 1..Len(writes) :
            /\ writes[q].x = WrapLong(displays[IndexOf(writes[q].DeviceName) + 1].x
                                        - displays[targetIndex + 1].x)
            /\ writes[q].y = WrapLong(displays[IndexOf(writes[q].DeviceName) + 1].y
                                        - displays[targetIndex + 1].y)

(***************************************************************************)
(* C12. Target selection is a function of the snapshot's primary flags and *)
(* count alone: in every run, the first or a later one, the target index   *)
(* is the value SelectionOf gives for the flags, whatever the positions    *)
(* and whatever the earlier runs did.                                      *)
(***************************************************************************)
\* The primary flags of the snapshot ds, in order.
FlagsIn(ds) == [j \in 1..Len(ds) |-> ds[j].isPrimary]

\* The positions of the snapshot ds, in order.
PositionsIn(ds) == [j \in 1..Len(ds) |-> <<ds[j].x, ds[j].y>>]

\* The target index for the flags fl: none (-1) without a flagged monitor or
\* with a single monitor, else the successor of the lowest flagged index.
SelectionOf(fl) ==
    IF Len(fl) <= 1 \/ (\A j \in 1..Len(fl) : ~fl[j]) THEN -1
    ELSE LET p == CHOOSE j \in 1..Len(fl) :
                    fl[j] /\ \A j2 \in 1..Len(fl) : fl[j2] => (j <= j2)
         IN  IF p = Len(fl) THEN 0 ELSE p

C12_SelectionDependsOnFlagsOnly ==
    (Enumerated /\ pc # "select") => (targetIndex = SelectionOf(FlagsIn(displays)))

\* A later run selected its target on a snapshot with the flags of an
\* earlier run's snapshot and with other positions.
C12_Witness ==
    /\ Done
    /\ targetIndex >= 0
    /\ \E m \in 1..Len(history) :
        /\ FlagsIn(history[m]) = FlagsIn(displays)
        /\ PositionsIn(history[m]) # PositionsIn(displays)

(***************************************************************************)
(* C13. Nothing is applied before the final apply: as long as apply_staged *)
(* has not been invoked, and so in every run that ends with exit status 3  *)
(* or 4, the settings in force of every monitor (position and primary      *)
(* designation) are those of the snapshot; the service stages the writes   *)
(* that carry the defer-apply flag.                                        *)
(***************************************************************************)
C13_NothingAppliedBeforeApply ==
    /\ (exit \in {3, 4}) => (applies = <<>>)
    /\ (Enumerated /\ applies = <<>>) =>
        /\ DOMAIN applied = {Dev(j) : j \in 0..(N - 1)}
        /\ \A j \in 0..(N - 1) :
            applied[Dev(j)] = [x |-> displays[j + 1].x, y |-> displays[j + 1].y,
                               isPrimary |-> displays[j + 1].isPrimary]

\* The third write of a run was refused after two writes were staged; the
\* target is away from the origin and not primary in the settings in force.
C13_Witness ==
    /\ Done
    /\ exit = 4
    /\ Len(writes) = 3
    /\ Cardinality(DOMAIN staged) = 2
    /\ staged[Dev(targetIndex)].setPrimary
    /\ applied[Dev(targetIndex)].x = 1920
    /\ ~applied[Dev(targetIndex)].isPrimary

(***************************************************************************)
(* C16. The snapshot is read once.  When another process changes the       *)
(* settings while the writes are in progress, no device is enumerated or   *)
(* read again, and the target index, the offset and every position written *)
(* are those computed from the snapshot.                                   *)
(***************************************************************************)
WrittenFromSnapshot ==
    (targetIndex >= 0) =>
        /\ targetIndex = SelectionOf(FlagsIn(displays))
        /\ offsetX = WrapLong(0 - displays[targetIndex + 1].x)
        /\ offsetY = WrapLong(0 - displays[targetIndex + 1].y)
        /\ \A q \in 1..Len(writes) :
            /\ writes[q].x = WrapLong(displays[IndexOf(writes[q].DeviceName) + 1].x
                                        - displays[targetIndex + 1].x)
            /\ writes[q].y = WrapLong(displays[IndexOf(writes[q].DeviceName) + 1].y
                                        - displays[targetIndex + 1].y)

NoReadAfterEnumeration ==
    Enumerated => (devs' = devs /\ i' = i /\ displays' = displays)

C16_SnapshotReadOnce ==
    /\ []WrittenFromSnapshot
    /\ [][NoReadAfterEnumeration]_vars

\* The last monitor was moved by another process before its write was
\* issued: the write, which was refused, still carries the position computed
\* from the snapshot.
C16_Witness ==
    /\ Done
    /\ exit = 4
    /\ N = 3
    /\ Len(writes) = 3
    /\ writes[3].DeviceName = Dev(2)
    /\ <<applied[Dev(2)].x, applied[Dev(2)].y>> # <<displays[3].x, displays[3].y>>
    /\ writes[3].x = WrapLong(displays[3].x - displays[targetIndex + 1].x)

\* Another process made a monitor that is not the snapshot's primary the
\* primary while the writes were in progress.
C16_PrimaryChanged ==
    /\ pc = "others"
    /\ N = 3
    /\ Primaries = {0}
    /\ applied[Dev(2)].isPrimary
    /\ targetIndex = 1

(***************************************************************************)
(* C17. Every run terminates; it issues at most N write_settings calls and *)
(* at most one apply_staged call; and once it has ended, with a failure or *)
(* with success, no further service call is made.                          *)
(***************************************************************************)
AtMostNWritesOneApply == Len(writes) <= N /\ Len(applies) <= 1

EndedIsAbsorbing ==
    Done => (pc' = pc /\ exit' = exit /\ writes' = writes /\ applies' = applies
             /\ devs' = devs)

C17_RunTerminates ==
    /\ <>Done
    /\ []AtMostNWritesOneApply
    /\ [][EndedIsAbsorbing]_vars

\* A run that ended after its three writes and its apply.
C17_Witness ==
    /\ Done
    /\ N = 3
    /\ Len(writes) = 3
    /\ Len(applies) = 1

(***************************************************************************)
(* C18. Repeated runs cycle through the monitors.  From N >= 2 monitors    *)
(* with one primary, at index p, and with every write and apply accepted,  *)
(* the monitor (p+r) mod N is the primary after r runs; after N runs the   *)
(* primary is the original one and the position of every monitor relative  *)
(* to the primary is its original relative position.                       *)
(***************************************************************************)
\* The snapshot indices flagged primary in the snapshot ds.
PrimariesIn(ds) == {j \in 0..(Len(ds) - 1) : ds[j + 1].isPrimary}

\* The first run started from a valid topology, and r runs have ended.
CyclingFrom(r) ==
    /\ r >= 1
    /\ Len(history) = r
    /\ Enumerated
    /\ Len(history[1]) >= 2
    /\ Cardinality(PrimariesIn(history[1])) = 1

\* After r runs and in every earlier run the primary is the r-th successor
\* of the original one.
PrimaryCycles ==
    \A r \in 1..MaxRuns :
        CyclingFrom(r) =>
            LET n0 == Len(history[1])
                p0 == CHOOSE p \in PrimariesIn(history[1]) : TRUE
            IN  /\ N = n0
                /\ Primaries = {(p0 + r) % n0}
                /\ \A m \in 1..r : PrimariesIn(history[m]) = {(p0 + m - 1) % n0}

C18_RepeatedRunsCycle ==
    /\ PrimaryCycles
    /\ \A r \in 1..MaxRuns :
        (CyclingFrom(r) /\ r = Len(history[1])) =>
            LET orig == history[1]
                p0 == CHOOSE p \in PrimariesIn(orig) : TRUE
            IN  \A j \in 1..Len(orig) :
                    /\ displays[j].x - displays[p0 + 1].x = orig[j].x - orig[p0 + 1].x
                    /\ displays[j].y - displays[p0 + 1].y = orig[j].y - orig[p0 + 1].y

\* What the code does: the primary cycles, and after N runs the relative
\* positions are the original ones reduced to the width of LONG.
C18_CycleUpToWrap ==
    /\ PrimaryCycles
    /\ \A r \in 1..MaxRuns :
        (CyclingFrom(r) /\ r = Len(history[1])) =>
            LET orig == history[1]
                p0 == CHOOSE p \in PrimariesIn(orig) : TRUE
            IN  \A j \in 1..Len(orig) :
                    /\ displays[j].x = WrapLong(orig[j].x - orig[p0 + 1].x)
                    /\ displays[j].y = WrapLong(orig[j].y - orig[p0 + 1].y)

\* The property as stated holds of the runs whose first snapshot has its
\* primary at the origin: the original relative positions are then the
\* original positions.
C18_HoldsFromOrigin ==
    \A r \in 1..MaxRuns :
        (CyclingFrom(r) /\ r = Len(history[1])) =>
            LET orig == history[1]
                p0 == CHOOSE p \in PrimariesIn(orig) : TRUE
            IN  (orig[p0 + 1].x = 0 /\ orig[p0 + 1].y = 0) =>
                    \A j \in 1..Len(orig) :
                        /\ displays[j].x - displays[p0 + 1].x
                            = orig[j].x - orig[p0 + 1].x
                        /\ displays[j].y - displays[p0 + 1].y
                            = orig[j].y - orig[p0 + 1].y

\* Three runs over three monitors have ended and the fourth has read its
\* snapshot.
C18_ThreeRunsReached ==
    /\ CyclingFrom(3)
    /\ Len(history[1]) = 3

====
